---- MODULE Spec2Model ----
(***************************************************************************)
(* Model of monitor_adoption.py: list_js_repos (paginated enumeration over *)
(* the organization and user endpoints, filtered by language),             *)
(* check_workflow (one contents request per repository) and main (the      *)
(* check loop and the dashboard file).  The GitHub API is the environment: *)
(* every request is answered with a status and a body drawn from small     *)
(* sets, and every request is recorded, with its answer, in a log.         *)
(***************************************************************************)
EXTENDS Integers, Sequences, FiniteSets, TLC

VARIABLES
    org,        \* ORG, the account identifier (sys.argv[1])
    pc,         \* position of the script: "list", "check", "done", "failed"
    endpoint,   \* index into Endpoints of the endpoint being paginated
    page,       \* the local variable page of list_js_repos
    repos,      \* the list repos (of list_js_repos, then of main)
    total,      \* main's total
    results,    \* main's results, a sequence of <<name, has>>
    file,       \* adoption_dashboard.html: NoFile, or what was written
    listLog,    \* every request made by list_js_repos, with its response
    checkLog    \* every request made by check_workflow, with its response

vars == <<org, pc, endpoint, page, repos, total, results, file, listLog, checkLog>>

----------------------------------------------------------------------------
(* Bounds of the model *)

\* the number of named repository descriptors the API serves in one run
MaxItems == 2

----------------------------------------------------------------------------
(* Program constants *)

\* params={"per_page": 100, ...}
PerPage == 100

\* the tuple the for loop of list_js_repos iterates over
Endpoints == <<"orgs", "users">>

\* the literal list of line 50
WantedLanguages == <<"JavaScript", "TypeScript">>

----------------------------------------------------------------------------
(* The environment: accounts, repository descriptors, pages, statuses *)

Accounts == {"acme", "octocat"}

\* what repo.get("language") yields for a null or absent language
None == "<None>"

\* the repository descriptors the API may serve; names identify them
Descriptors ==
    { [name |-> "a", language |-> "JavaScript"],
      [name |-> "b", language |-> "TypeScript"],
      [name |-> "c", language |-> "javascript"],
      [name |-> "d", language |-> None] }

\* a descriptor that fills a page up to per_page items
Filler == [name |-> "pad", language |-> "Python"]

SeqsUpTo(S, n) == UNION { [1..k -> S] : k \in 0..n }

\* A page is its named descriptors followed by pad copies of Filler.
PageSize(data) == Len(data.items) + data.pad

EmptyPage == [items |-> <<>>, pad |-> 0]

\* the pages the API may answer when n named descriptors are still unserved:
\* one or more named descriptors, alone (a short page) or filled up to
\* exactly per_page items
PagesUpTo(n) ==
    UNION { { [items |-> s, pad |-> p] : p \in {0, PerPage - Len(s)} } :
              s \in SeqsUpTo(Descriptors, n) \ {<<>>} }

\* statuses the API answers a listing request with, besides 200 and 404
ListErrorStatuses == {403, 500}

\* statuses the API answers a contents request with
CheckStatuses == {200, 204, 403, 404}

NoFile == [written |-> FALSE]

----------------------------------------------------------------------------
(* list_js_repos *)

\* mutant: the fallback is keyed on 410 instead of 404
IsGone(status) == status = 410

\* line 42: resp.status_code == 404
IsNotFound(status) == status = 404

\* mutant: only server errors raise
RaisesForServerError(status) == status >= 500 /\ status < 600

\* line 44: resp.raise_for_status() raises for 4xx and 5xx
RaisesForStatus(status) == status >= 400 /\ status < 600

\* mutant: pagination stops on a page shorter than per_page
IsShortData(data) == PageSize(data) < PerPage

\* line 46: not data
IsEmptyData(data) == PageSize(data) = 0

\* mutant: the language is matched ignoring case
MatchesIgnoringCase(language) ==
    language \in {"JavaScript", "TypeScript", "javascript", "typescript"}

\* line 50: language in ["JavaScript", "TypeScript"]
MatchesLanguage(language) ==
    \E i \in 1..Len(WantedLanguages) : WantedLanguages[i] = language

\* mutant: each name is put in front of the names kept so far
RECURSIVE FilterNamesInFront(_)
FilterNamesInFront(items) ==
    IF items = <<>> THEN <<>>
    ELSE FilterNamesInFront(Tail(items))
         \o (IF MatchesLanguage(Head(items).language)
             THEN <<Head(items).name>> ELSE <<>>)

\* lines 48-51 on a sequence of descriptors
RECURSIVE FilterNames(_)
FilterNames(items) ==
    IF items = <<>> THEN <<>>
    ELSE (IF MatchesLanguage(Head(items).language)
          THEN <<Head(items).name>> ELSE <<>>) \o FilterNames(Tail(items))

\* lines 48-51 on the pad copies of Filler that end a page
FilterPad(n) ==
    IF MatchesLanguage(Filler.language) THEN [i \in 1..n |-> Filler.name] ELSE <<>>

\* lines 48-51: the names the loop over data appends to repos
Appended(data) == FilterNames(data.items) \o FilterPad(data.pad)

\* line 52
NextPage(p) == p + 1

\* lines 37-41: the request; url and params as sent
ListRequest(status, data) ==
    [kind |-> Endpoints[endpoint], account |-> org, per_page |-> PerPage,
     page |-> page, status |-> status, data |-> data]

\* the named descriptors served so far
RECURSIVE ItemsServed(_)
ItemsServed(log) ==
    IF log = <<>> THEN 0
    ELSE Len(Head(log).data.items) + ItemsServed(Tail(log))

\* mutant: an enumeration that found nothing raises instead of returning
ReturnOrRaise(rs) ==
    IF rs = <<>>
    THEN pc' = "failed" /\ UNCHANGED <<repos, total, results>>
    ELSE pc' = "check" /\ repos' = rs /\ total' = Len(rs) /\ results' = <<>>

\* line 53 / line 47 return repos, then lines 65-67 of main
ReturnRepos(rs) ==
    /\ pc' = "check"
    /\ repos' = rs
    /\ total' = Len(rs)
    /\ results' = <<>>

\* the response to a listing request: a status, and the body resp.json()
\* yields, a list of descriptors when the status is 200
ListResponses ==
    [status : {404} \cup ListErrorStatuses, data : {EmptyPage}]
    \cup [status : {200}, data : {EmptyPage}]
    \cup [status : {200},
          data : PagesUpTo(MaxItems - ItemsServed(listLog))]

\* lines 42-43: a 404 breaks out of the while loop; the for loop goes on to
\* the next endpoint, or ends and line 53 returns repos
ListNotFound ==
    /\ pc = "list"
    /\ \E resp \in ListResponses :
          /\ IsNotFound(resp.status)
          /\ listLog' = Append(listLog, ListRequest(resp.status, resp.data))
    /\ IF endpoint < Len(Endpoints)
       THEN /\ endpoint' = endpoint + 1
            /\ page' = 1
            /\ UNCHANGED <<pc, repos, total, results>>
       ELSE /\ ReturnRepos(repos)
            /\ UNCHANGED <<endpoint, page>>
    /\ UNCHANGED <<org, file, checkLog>>

\* line 44: raise_for_status raises; nothing catches it, the script ends
ListError ==
    /\ pc = "list"
    /\ \E resp \in ListResponses :
          /\ ~IsNotFound(resp.status)
          /\ RaisesForStatus(resp.status)
          /\ listLog' = Append(listLog, ListRequest(resp.status, resp.data))
    /\ pc' = "failed"
    /\ UNCHANGED <<org, endpoint, page, repos, total, results, file, checkLog>>

\* lines 45-52: the body is read; an empty list returns repos, any other
\* list is filtered into repos and the next page is requested
ListPage ==
    /\ pc = "list"
    /\ \E resp \in ListResponses :
          /\ ~IsNotFound(resp.status)
          /\ ~RaisesForStatus(resp.status)
          /\ listLog' = Append(listLog, ListRequest(resp.status, resp.data))
          /\ IF IsEmptyData(resp.data)
             THEN /\ ReturnRepos(repos)
                  /\ UNCHANGED page
             ELSE /\ repos' = repos \o Appended(resp.data)
                  /\ page' = NextPage(page)
                  /\ UNCHANGED <<pc, total, results>>
    /\ UNCHANGED <<org, endpoint, file, checkLog>>

----------------------------------------------------------------------------
(* check_workflow and main *)

\* mutant: every 200-class status counts as present
HasWorkflow2xx(status) == status >= 200 /\ status < 300

\* mutant: every status but 404 counts as present
HasWorkflowUnless404(status) == status # 404

\* line 62
HasWorkflow(status) == status = 200

\* lines 58-61: the request
CheckRequest(repo, status) == [account |-> org, repo |-> repo, status |-> status]

\* mutant: the result is put in front of the results so far
PrependResult(rs, name, has) == <<<<name, has>>>> \o rs

\* line 70
AppendResult(rs, name, has) == Append(rs, <<name, has>>)

\* lines 68-70: one iteration of the loop over repos
CheckNext ==
    /\ pc = "check"
    /\ Len(results) < Len(repos)
    /\ LET name == repos[Len(results) + 1] IN
       \E status \in CheckStatuses :
          /\ checkLog' = Append(checkLog, CheckRequest(name, status))
          /\ results' = AppendResult(results, name, HasWorkflow(status))
    /\ UNCHANGED <<org, pc, endpoint, page, repos, total, file, listLog>>

\* line 75: sum(1 for _,h in results if h)
RECURSIVE Adopted(_)
Adopted(rs) ==
    IF rs = <<>> THEN 0
    ELSE (IF Head(rs)[2] THEN 1 ELSE 0) + Adopted(Tail(rs))

\* lines 95-98: one table row per result
Rows(rs) == [i \in 1..Len(rs) |-> [name |-> rs[i][1], present |-> rs[i][2]]]

\* lines 73-104: after the loop, render and write the dashboard
WriteDashboard ==
    /\ pc = "check"
    /\ Len(results) = Len(repos)
    /\ file' = [written |-> TRUE, account |-> org, adopted |-> Adopted(results),
                total |-> total, rows |-> Rows(results)]
    /\ pc' = "done"
    /\ UNCHANGED <<org, endpoint, page, repos, total, results, listLog, checkLog>>

----------------------------------------------------------------------------

Init ==
    /\ org \in Accounts
    /\ pc = "list"
    /\ endpoint = 1
    /\ page = 1
    /\ repos = <<>>
    /\ total = 0
    /\ results = <<>>
    /\ file = NoFile
    /\ listLog = <<>>
    /\ checkLog = <<>>

Next ==
    \/ ListNotFound
    \/ ListError
    \/ ListPage
    \/ CheckNext
    \/ WriteDashboard

Spec == Init /\ [][Next]_vars

\* the script runs to its end: a step that can be taken is taken
FairSpec == Spec /\ WF_vars(Next)

----------------------------------------------------------------------------
(* Vocabulary of the properties, stated over the logs of requests *)

\* the allow-set of the specification, section 4.1
AllowSet == {"JavaScript", "TypeScript"}

OrgLog == SelectSeq(listLog, LAMBDA r : r.kind = "orgs")
UserLog == SelectSeq(listLog, LAMBDA r : r.kind = "users")

\* the names of the allow-set descriptors of a sequence, in order
RECURSIVE AllowedNames(_)
AllowedNames(items) ==
    IF items = <<>> THEN <<>>
    ELSE (IF Head(items).language \in AllowSet
          THEN <<Head(items).name>> ELSE <<>>) \o AllowedNames(Tail(items))

\* the same over a page: its named descriptors, then its copies of Filler
AllowedNamesOfPage(data) ==
    AllowedNames(data.items)
    \o (IF Filler.language \in AllowSet
        THEN [i \in 1..data.pad |-> Filler.name] ELSE <<>>)

\* the same over the pages of a log, in page order
RECURSIVE AllowedNamesOfLog(_)
AllowedNamesOfLog(log) ==
    IF log = <<>> THEN <<>>
    ELSE AllowedNamesOfPage(Head(log).data) \o AllowedNamesOfLog(Tail(log))

\* the descriptors of a page
DescriptorsOfPage(data) ==
    {data.items[j] : j \in 1..Len(data.items)}
    \cup (IF data.pad > 0 THEN {Filler} ELSE {})

\* log is N >= 0 non-empty 200 pages followed by one empty 200 page
PagesThenEmpty(log) ==
    /\ Len(log) >= 1
    /\ \A i \in 1..Len(log) :
          /\ log[i].status = 200
          /\ (PageSize(log[i].data) = 0) <=> (i = Len(log))

\* list_js_repos has returned a sequence to main
Returned == pc \in {"check", "done"}

\* every descriptor served in a 200 page so far
ServedDescriptors ==
    UNION { DescriptorsOfPage(listLog[i].data) :
              i \in {k \in 1..Len(listLog) : listLog[k].status = 200} }

\* every name list_js_repos holds, check_workflow was called with, or the
\* dashboard shows
NamesInUse ==
    {repos[i] : i \in 1..Len(repos)}
    \cup {checkLog[i].repo : i \in 1..Len(checkLog)}
    \cup {results[i][1] : i \in 1..Len(results)}
    \cup (IF file.written THEN {file.rows[i].name : i \in 1..Len(file.rows)} ELSE {})

\* an HTTP error status other than 404
IsOtherHttpError(status) == status >= 400 /\ status <= 599 /\ status # 404

----------------------------------------------------------------------------
(* C1 *)

\* C1: when the organization endpoint answered pages 1..N with non-empty
\* lists and page N+1 with an empty list, list_js_repos has returned exactly
\* the allow-set names of those pages, in page order and within-page order,
\* and no request to the user endpoint was made.
C1_OrgPagesConcatenated ==
    PagesThenEmpty(OrgLog) =>
        /\ Returned
        /\ repos = AllowedNamesOfLog(OrgLog)
        /\ UserLog = <<>>

\* two organization pages, one of them of exactly per_page items, then the
\* empty page; both pages contribute a name
C1_Witness ==
    /\ PagesThenEmpty(OrgLog)
    /\ Len(OrgLog) = 3
    /\ \E i \in 1..2 : PageSize(OrgLog[i].data) = PerPage
    /\ \E i \in 1..2 : PageSize(OrgLog[i].data) < PerPage
    /\ Len(repos) = 2
    /\ pc = "done"

----------------------------------------------------------------------------
(* C2 *)

\* C2: once the organization endpoint has answered anything but 404, no
\* request to the user endpoint follows in that enumeration.
C2_UserNeverAfterOrgAnswered ==
    \A i, j \in 1..Len(listLog) :
        (i < j /\ listLog[i].kind = "orgs" /\ listLog[i].status # 404)
            => listLog[j].kind # "users"

----------------------------------------------------------------------------
(* C3 *)

\* C3: when the first organization request is answered 404, the next request
\* is page 1 of the user endpoint for the same account, and when that
\* endpoint answers non-empty pages followed by an empty page, list_js_repos
\* returns exactly the allow-set names of those pages, in order.
C3_FallsBackToUser ==
    (Len(listLog) >= 1 /\ listLog[1].status = 404) =>
        /\ Len(listLog) = 1 =>
              (pc = "list" /\ Endpoints[endpoint] = "users" /\ page = 1)
        /\ Len(listLog) >= 2 =>
              /\ listLog[2].kind = "users"
              /\ listLog[2].page = 1
              /\ listLog[2].account = listLog[1].account
        /\ PagesThenEmpty(Tail(listLog)) =>
              (Returned /\ repos = AllowedNamesOfLog(UserLog))

\* 404, then two user pages and the empty page, two names returned
C3_Witness ==
    /\ Len(listLog) = 4
    /\ listLog[1].kind = "orgs" /\ listLog[1].status = 404
    /\ PagesThenEmpty(UserLog)
    /\ Len(repos) = 2
    /\ Returned

----------------------------------------------------------------------------
(* C4 *)

\* both endpoints answered their first request with 404
Both404 ==
    /\ Len(listLog) = 2
    /\ listLog[1].status = 404
    /\ listLog[2].status = 404

\* C4: when both endpoints answer 404, list_js_repos returns the empty
\* sequence without an error, and the run goes on to write a dashboard with
\* no rows.
C4_Both404EmptyReport ==
    /\ [](Both404 => (Returned /\ repos = <<>>))
    /\ (Both404 ~> (file.written /\ file.rows = <<>> /\ file.total = 0))

C4_Witness ==
    /\ Both404
    /\ listLog[1].kind = "orgs" /\ listLog[2].kind = "users"
    /\ pc = "done"
    /\ file.written /\ file.rows = <<>>

----------------------------------------------------------------------------
(* C5 *)

\* C5: at every point of a run, every name in repos, every name passed to
\* check_workflow and every dashboard row is the name of a served descriptor
\* whose language is exactly "JavaScript" or "TypeScript"; the name of a
\* served descriptor with any other language (another language, another
\* case, None) is in none of them.
C5_OnlyAllowSetNames ==
    /\ \A n \in NamesInUse :
          \E d \in ServedDescriptors : d.name = n /\ d.language \in AllowSet
    /\ \A d \in ServedDescriptors :
          d.language \notin AllowSet => d.name \notin NamesInUse

\* a differently-cased or None language and a page filled with repositories
\* of another language were served beside a wanted one; the dashboard has a
\* row
C5_Witness ==
    /\ pc = "done"
    /\ file.rows # <<>>
    /\ \E d \in ServedDescriptors : d.language \in {"javascript", None}
    /\ \E d \in ServedDescriptors : d.language = "Python"

----------------------------------------------------------------------------
(* C6 *)

\* C6: when a listing request is answered with an HTTP error status other
\* than 404, list_js_repos fails instead of returning, that request is the
\* last request of the run (no page, endpoint or workflow request follows),
\* and no dashboard is written.
C6_ListErrorAborts ==
    \A i \in 1..Len(listLog) :
        IsOtherHttpError(listLog[i].status) =>
            /\ i = Len(listLog)
            /\ pc = "failed"
            /\ checkLog = <<>>
            /\ results = <<>>
            /\ file = NoFile

\* an error on the user endpoint, after a page of the organization endpoint
\* was collected
C6_Witness ==
    /\ Len(listLog) >= 3
    /\ listLog[Len(listLog)].status = 500
    /\ listLog[Len(listLog)].kind = "users"
    /\ repos # <<>>
    /\ pc = "failed"

----------------------------------------------------------------------------
(* C7 *)

\* C7 as stated: one request per call, the result is true for every
\* 200-class status and false for every other status.
C7_TrueFor2xx ==
    /\ Len(checkLog) = Len(results)
    /\ \A i \in 1..Len(results) :
          results[i][2] = (checkLog[i].status \in 200..299)

\* C7 amended: check_workflow makes exactly one request per call and returns
\* true exactly when the status is 200, false for every other status (204,
\* 403, 404), and no status makes it raise.
C7_TrueOnlyFor200 ==
    /\ Len(checkLog) = Len(results)
    /\ \A i \in 1..Len(results) :
          /\ results[i][1] = checkLog[i].repo
          /\ results[i][2] = (checkLog[i].status = 200)
    /\ checkLog # <<>> => pc # "failed"

\* a call answered 200 and a call answered 204
C7_Witness ==
    /\ Len(results) = 2
    /\ checkLog[1].status = 200 /\ results[1][2]
    /\ checkLog[2].status = 204 /\ ~results[2][2]

----------------------------------------------------------------------------
(* C8 *)

\* a workflow check was answered with a status that is neither 200 nor 404
OddCheckStatus == \E i \in 1..Len(checkLog) : checkLog[i].status \notin {200, 404}

\* C8 as stated: a workflow check answered with a status that is neither 200
\* nor 404 aborts the run: it is the last request and no dashboard is written.
C8_OddStatusAborts ==
    \A i \in 1..Len(checkLog) :
        checkLog[i].status \notin {200, 404} =>
            /\ i = Len(checkLog)
            /\ pc = "failed"
            /\ file = NoFile

\* C8 amended: a workflow check answered with a status that is neither 200
\* nor 404 is no error: it is recorded as absent, the run does not fail, every
\* remaining repository is checked and the dashboard is written with one row
\* per repository.
C8_OddStatusReadsAbsent ==
    /\ [](\A i \in 1..Len(checkLog) :
             checkLog[i].status \notin {200, 404} =>
                 (i <= Len(results) /\ ~results[i][2] /\ pc # "failed"))
    /\ (OddCheckStatus ~>
            (file.written /\ Len(file.rows) = Len(repos)
                /\ Len(checkLog) = Len(repos)))

\* a 403 on the first of two repositories, the second still checked, the
\* dashboard written
C8_Witness ==
    /\ Len(checkLog) = 2
    /\ checkLog[1].status = 403
    /\ file.written
    /\ Len(file.rows) = 2
    /\ ~file.rows[1].present

----------------------------------------------------------------------------
(* C9 *)

\* the requests to each endpoint carry the page numbers 1, 2, 3, ...
ConsecutivePages(log) == \A i \in 1..Len(log) : log[i].page = i

\* C9: on each endpoint the page numbers requested are 1, 2, 3, ...; after
\* every non-empty 200 page, of exactly per_page items or fewer, the next
\* request is the following page of the same endpoint; an endpoint is left
\* only on an empty page, a 404 or an error.
C9_PaginationOrder ==
    /\ ConsecutivePages(OrgLog)
    /\ ConsecutivePages(UserLog)
    /\ \A i \in 1..Len(listLog) :
          (listLog[i].status = 200 /\ PageSize(listLog[i].data) > 0) =>
              IF i < Len(listLog)
              THEN /\ listLog[i + 1].kind = listLog[i].kind
                   /\ listLog[i + 1].page = listLog[i].page + 1
              ELSE /\ pc = "list"
                   /\ Endpoints[endpoint] = listLog[i].kind
                   /\ page = listLog[i].page + 1
    /\ \A i \in 1..Len(listLog) :
          (\/ i = Len(listLog) /\ pc # "list"
           \/ i < Len(listLog) /\ listLog[i + 1].kind # listLog[i].kind)
              => \/ listLog[i].status # 200
                 \/ PageSize(listLog[i].data) = 0

\* a page of exactly per_page items and a shorter page, each followed by the
\* request of the next page, the third page empty
C9_Witness ==
    /\ Len(OrgLog) = 3
    /\ PageSize(OrgLog[1].data) = PerPage
    /\ PageSize(OrgLog[2].data) \in 1..(PerPage - 1)
    /\ OrgLog[3].page = 3
    /\ PageSize(OrgLog[3].data) = 0
    /\ OrgLog[3].status = 200

----------------------------------------------------------------------------
(* C10 *)

\* C10: workflow checks are made only after the enumeration has finished;
\* when the run completes, the dashboard holds one row per enumerated
\* repository, in enumeration order, whose marker is the result of the one
\* check_workflow call made for that name; total is the number of rows and
\* adopted the number of rows marked present.
C10_ReportRows ==
    /\ checkLog # <<>> => pc # "list"
    /\ pc = "done" =>
          /\ file.written
          /\ Len(file.rows) = Len(repos)
          /\ Len(checkLog) = Len(repos)
          /\ \A i \in 1..Len(repos) :
                /\ file.rows[i].name = repos[i]
                /\ checkLog[i].repo = repos[i]
                /\ file.rows[i].present = (checkLog[i].status = 200)
          /\ file.total = Len(file.rows)
          /\ file.adopted =
                Cardinality({i \in 1..Len(file.rows) : file.rows[i].present})
          /\ file.adopted >= 0 /\ file.adopted <= file.total
          /\ file.account = org

\* two rows in enumeration order, which is not sorted order, one present
C10_Witness ==
    /\ pc = "done"
    /\ repos = <<"b", "a">>
    /\ Len(file.rows) = 2
    /\ file.rows[1].name = "b" /\ ~file.rows[1].present
    /\ file.rows[2].name = "a" /\ file.rows[2].present
    /\ file.adopted = 1 /\ file.total = 2

====
